---- MODULE Spec2Model ----
(***************************************************************************)
(* Model of srwpy/uti_plot.py: the plotting facade of SRW.                 *)
(*                                                                         *)
(* The module keeps one process-wide handle, _backend, which is an         *)
(* instance of _BackendMissing (the lazy proxy), of _BackendNone (no-op)   *)
(* or of uti_plot_matplotlib.Backend.  Every facade function normalises    *)
(* its arguments and calls the same-named method on _backend.  The code is *)
(* single threaded: one action is one complete call of a public function.  *)
(*                                                                         *)
(* Python values: None is the record None, an optional string is Str(s),   *)
(* a units tuple is Tup(<<..>>), a range or data list is Lst(<<..>>), a    *)
(* label tuple is a TLA+ sequence of strings, and the numbers handed in as *)
(* cut coordinates carry their Python type (PyInt, PyFloat) because str()  *)
(* prints the two differently.  Python 3 semantics.                        *)
(***************************************************************************)
EXTENDS Integers, Sequences, TLC

VARIABLES
    _backend,   \* the module global _backend (uti_plot.py:40, 302)
    plots,      \* number of plot requests the real backend has accepted
    autoInits,  \* number of uti_plot_init() calls made by _BackendMissing
    received,   \* the call that reached a backend object during the last
                \* operation: [target, name, args], or NoCall
    last        \* the last public call: its name, inputs, the handle it
                \* found, the exception it raised ("none" if it returned)

vars == <<_backend, plots, autoInits, received, last>>

----------------------------------------------------------------------------
\* Bounds of the model

\* the real backend accepts at most this many plot requests in a run
MaxPlots == 1

\* longest list of (x, y) pairs handed to uti_plot1d_ir
MaxPairs == 2

----------------------------------------------------------------------------
\* Python values

None == [type |-> "NoneType"]

Str(s) == [type |-> "str", val |-> s]

\* a tuple or a list that may also be None carries its type
Tup(items) == [type |-> "tuple", items |-> items]

Lst(items) == [type |-> "list", items |-> items]

PyInt(v) == [type |-> "int", val |-> v]

PyFloat(v) == [type |-> "float", val |-> v]

\* str() of an int, or of a float with an integral value: 0 -> "0", 0.0 -> "0.0"
PyStr(n) == IF n.type = "float" THEN ToString(n.val) \o ".0" ELSE ToString(n.val)

\* round(n, 6): Python 3 keeps the type of n; the model's numbers have
\* integral values, which rounding to 6 decimals leaves as they are
PyRound6(n) == [type |-> n.type, val |-> n.val]

\* n != 0 (0 == 0.0 in Python)
PyNonZero(n) == n.val # 0

\* n * ratio, ratio being the result of a true division: always a float
PyMulFloat(n, ratio) == PyFloat(n.val * ratio)

DEFAULT_BACKEND == "<default>"

\* The three variants of the handle
Missing == [class |-> "_BackendMissing"]

BackendNone == [class |-> "_BackendNone"]

Backend(backend, fname_format) ==
    [class |-> "Backend", backend |-> backend, fname_format |-> fname_format]

NoCall == [target |-> "none", name |-> "none", args |-> <<>>]

NoArgs == <<>>

\* The method names of the backend surface
BackendMethods ==
    {"uti_plot_show", "uti_plot1d", "uti_plot1d_ir", "uti_plot1d_m",
     "uti_plot2d", "uti_plot2d1d", "uti_plot_data_file"}

----------------------------------------------------------------------------
\* uti_plot_com.rescale_dim: external collaborator, a pure function from a
\* range triple and a unit to a rescaled triple and unit.  Metres are shown
\* in millimetres, every other unit is left alone.
RescaleFactor(unit) == IF unit = "m" THEN 1000 ELSE 1

RescaleDim(x_range, unit) ==
    IF unit = "m"
    THEN << Lst(<<x_range.items[1] * RescaleFactor(unit),
                  x_range.items[2] * RescaleFactor(unit),
                  x_range.items[3]>>),
            "mm" >>
    ELSE <<x_range, unit>>

----------------------------------------------------------------------------
\* uti_plot_init(backend, fname_format), lines 57-69.  constructs tells
\* whether importing uti_plot_matplotlib and constructing Backend succeed.
\* The result is the new handle and the exception raised ("none": returned).
UtiPlotInit_NoCatch(cur, backend, fname_format, constructs) ==
    IF backend # None
    THEN IF constructs
         THEN [handle |-> Backend(backend, fname_format), raised |-> "none"]
         ELSE [handle |-> cur, raised |-> "ImportError"]
    ELSE IF fname_format # None
         THEN [handle |-> cur, raised |-> "ValueError"]
         ELSE [handle |-> BackendNone, raised |-> "none"]

UtiPlotInit_NoCheck(cur, backend, fname_format, constructs) ==
    IF backend # None /\ constructs
    THEN [handle |-> Backend(backend, fname_format), raised |-> "none"]
    ELSE [handle |-> BackendNone, raised |-> "none"]

UtiPlotInit_FallbackMissing(cur, backend, fname_format, constructs) ==
    IF backend # None
    THEN IF constructs
         THEN [handle |-> Backend(backend, fname_format), raised |-> "none"]
         ELSE [handle |-> Missing, raised |-> "none"]
    ELSE IF fname_format # None
         THEN [handle |-> cur, raised |-> "ValueError"]
         ELSE [handle |-> BackendNone, raised |-> "none"]

UtiPlotInit_FirstWins(cur, backend, fname_format, constructs) ==
    IF cur # Missing
    THEN [handle |-> cur, raised |-> "none"]
    ELSE IF backend # None
    THEN IF constructs
         THEN [handle |-> Backend(backend, fname_format), raised |-> "none"]
         ELSE [handle |-> BackendNone, raised |-> "none"]
    ELSE IF fname_format # None
         THEN [handle |-> cur, raised |-> "ValueError"]
         ELSE [handle |-> BackendNone, raised |-> "none"]

uti_plot_init(cur, backend, fname_format, constructs) ==
    IF backend # None
    THEN IF constructs
         THEN [handle |-> Backend(backend, fname_format), raised |-> "none"]
         ELSE [handle |-> BackendNone, raised |-> "none"]
    ELSE IF fname_format # None
         THEN [handle |-> cur, raised |-> "ValueError"]
         ELSE [handle |-> BackendNone, raised |-> "none"]

----------------------------------------------------------------------------
\* The backend objects

\* uti_plot_matplotlib.Backend: a plot method records one plot, show records
\* none; a name outside the backend surface is an AttributeError
ActiveBackendCall(name, args, p) ==
    IF name \notin BackendMethods
    THEN [plots |-> p, raised |-> "AttributeError",
          received |-> NoCall]
    ELSE [plots |-> IF name = "uti_plot_show" THEN p ELSE p + 1,
          raised |-> "none",
          received |-> [target |-> "Backend", name |-> name, args |-> args]]

\* _BackendNone: __getattr__ answers every name with _backend_call, which
\* takes any arguments and does nothing (lines 287-289, 298-300)
BackendNoneCall_NoGetattr(name, args, p) ==
    [plots |-> p, raised |-> "AttributeError", received |-> NoCall]

BackendNoneCall(name, args, p) ==
    [plots |-> p, raised |-> "none",
     received |-> [target |-> "_BackendNone", name |-> name, args |-> args]]

\* sys._getframe(1).f_code.co_name inside _BackendMissing._backend_call: the
\* name of the facade function that called the proxy (line 294)
FrameName_Own(caller) == "_backend_call"

FrameName(caller) == caller

\* func(*args) on an initialised handle
InvokeOn(handle, name, args, p) ==
    IF handle = BackendNone
    THEN BackendNoneCall(name, args, p)
    ELSE ActiveBackendCall(name, args, p)

\* _backend.<caller>(*args) as written in a facade function whose name is
\* caller (the function of the innermost frame).  On _BackendMissing
\* (lines 291-296): uti_plot_init() with its defaults, then the method named
\* as the calling frame, looked up on the new handle, with the same args.
BackendCall(handle, caller, args, constructs, p) ==
    IF handle = Missing
    THEN LET i == uti_plot_init(handle, Str(DEFAULT_BACKEND), None, constructs)
             r == InvokeOn(i.handle, FrameName(caller), args, p)
         IN  [handle |-> i.handle, inits |-> 1, plots |-> r.plots,
              raised |-> r.raised, received |-> r.received]
    ELSE LET r == InvokeOn(handle, caller, args, p)
         IN  [handle |-> handle, inits |-> 0, plots |-> r.plots,
              raised |-> r.raised, received |-> r.received]

----------------------------------------------------------------------------
\* Inputs

Backends == {None, Str(DEFAULT_BACKEND), Str("TkAgg")}

FnameFormats == {None, Str("plot.png")}

Labels2 == <<"E", "I">>

Labels3 == <<"X", "Y", "Z">>

Units2 == {None, Tup(<<"eV", "ph">>), Tup(<<"m", "m">>)}

Units3 == {None, Tup(<<"m", "eV", "ph">>)}

Ranges == {Lst(<<0, 10, 5>>), Lst(<<0, 0, 1>>)}

\* cut coordinates: 0, 0.0 and 2
Cuts == {PyInt(0), PyFloat(0), PyInt(2)}

\* (x, y) pairs and the sequences of at most MaxPairs of them
Pairs == {<<1, 1>>, <<2, 4>>, <<3, 9>>}

PairSeqs == UNION {[1..n -> Pairs] : n \in 0..MaxPairs}

\* what uti_plot1d_ir is given as ary when arx is omitted: a list, a tuple or
\* an array of pairs
PairedOrdinates ==
    {[type |-> t, items |-> s] : t \in {"list", "tuple", "array"}, s \in PairSeqs}

\* or something that is no sequence at all: the int 5
NonSequence == [type |-> "int", val |-> 5]

----------------------------------------------------------------------------
\* The facade functions: each yields the exception raised before the call of
\* _backend ("none" when there is none) and the positional arguments sent.

\* lines 88-89, 108-109, 142-143, 166-167: the label tuple with units
Decorate(labels, units) ==
    << labels[1] \o " [" \o units[1] \o "]",
       labels[2] \o " [" \o units[2] \o "]",
       IF Len(labels) < 3 THEN "" ELSE labels[3] >>

\* uti_plot1d, lines 85-92
UtiPlot1dArgs_NoRescaledUnit(ar1d, x_range, labels, units) ==
    IF units # None
    THEN <<ar1d, RescaleDim(x_range, units.items[1])[1], Decorate(labels, units.items)>>
    ELSE <<ar1d, x_range, labels>>

UtiPlot1dArgs(ar1d, x_range, labels, units) ==
    IF units # None
    THEN LET rs == RescaleDim(x_range, units.items[1])
         IN  <<ar1d, rs[1], Decorate(labels, <<rs[2], units.items[2]>>)>>
    ELSE <<ar1d, x_range, labels>>

\* uti_plot1d_ir, lines 104-128.  A list, tuple or array argument is a record
\* [type, items].
\* line 114: isinstance(ary0, list) or isinstance(ary0, array) or
\* isinstance(ary0, tuple).  The name array is bound nowhere in the module
\* (lines 32-38 import uti_plot_com, sys and traceback only), so evaluating
\* the second operand raises NameError; only a list short-circuits it.
IsAcceptedContainer(ary0) ==
    IF ary0.type = "list"
    THEN [raised |-> "none", value |-> TRUE]
    ELSE [raised |-> "NameError", value |-> FALSE]

\* lines 117-126: the two parallel lists taken from the pairs
SplitPairs(ary) ==
    [arx |-> Lst([i \in 1..Len(ary.items) |-> ary.items[i][1]]),
     ary |-> Lst([i \in 1..Len(ary.items) |-> ary.items[i][2]])]

UtiPlot1dIrPre(ary, arx, labels, units) ==
    LET labels1 == IF units # None THEN Decorate(labels, units.items) ELSE labels
    IN  IF arx = None
        THEN LET c == IsAcceptedContainer(ary)
             IN  IF c.raised # "none"
                 THEN [raised |-> c.raised, sent |-> NoArgs]
                 ELSE IF ~c.value
                 THEN [raised |-> "Exception", sent |-> NoArgs]
                 ELSE LET s == SplitPairs(ary)
                      IN  [raised |-> "none", sent |-> <<s.ary, s.arx, labels1>>]
        ELSE [raised |-> "none", sent |-> <<ary, arx, labels1>>]

\* uti_plot1d_m, lines 141-145
UtiPlot1dMArgs(ars, labels, units, styles, legend) ==
    <<ars, IF units # None THEN Decorate(labels, units.items) ELSE labels, styles, legend>>

\* uti_plot2d, lines 161-169
UtiPlot2dArgs(ar2d, x_range, y_range, labels, units) ==
    IF units # None /\ x_range # None /\ y_range # None
    THEN LET rx == RescaleDim(x_range, units.items[1])
             ry == RescaleDim(y_range, units.items[2])
         IN  <<ar2d, rx[1], ry[1], Decorate(labels, <<rx[2], ry[2], units.items[3]>>)>>
    ELSE <<ar2d, x_range, y_range, labels>>

\* uti_plot2d1d, lines 187-230
\* lines 207-209 and 213-215: the title of a cut when units are given
CutTitle_AlwaysUnit(label, v, unit) ==
    "At " \o label \o ": " \o PyStr(PyRound6(v)) \o " " \o unit

CutTitle(label, v, unit) ==
    "At " \o label \o ": " \o PyStr(PyRound6(v))
        \o (IF PyNonZero(v) THEN " " \o unit ELSE "")

\* lines 198-199: v *= (new extent)/(old extent) for a non-zero cut; the
\* division is a true division (ZeroDivisionError when the old extent is 0)
ScaleCut(v, new_range, rangeOrig) ==
    IF PyNonZero(v)
    THEN IF rangeOrig = 0
         THEN [raised |-> "ZeroDivisionError", value |-> v]
         ELSE [raised |-> "none",
               value |-> PyMulFloat(v, (new_range.items[2] - new_range.items[1])
                                           \div rangeOrig)]
    ELSE [raised |-> "none", value |-> v]

UtiPlot2d1dPre(ar2d, x_range, y_range, x, y, labels, units, graphs_joined) ==
    IF units # None
    THEN LET xRangeOrig == x_range.items[2] - x_range.items[1]
             yRangeOrig == y_range.items[2] - y_range.items[1]
             rx == RescaleDim(x_range, units.items[1])
             ry == RescaleDim(y_range, units.items[2])
             x1 == ScaleCut(x, rx[1], xRangeOrig)
             y1 == ScaleCut(y, ry[1], yRangeOrig)
             units1 == <<rx[2], ry[2], units.items[3]>>
             label2D == <<labels[1] \o " [" \o units1[1] \o "]",
                          labels[2] \o " [" \o units1[2] \o "]", labels[3]>>
             label1X == <<labels[1] \o " [" \o units1[1] \o "]",
                          labels[3] \o " [" \o units1[3] \o "]",
                          CutTitle(labels[2], y1.value, units1[2])>>
             label1Y == <<labels[2] \o " [" \o units1[2] \o "]",
                          labels[3] \o " [" \o units1[3] \o "]",
                          CutTitle(labels[1], x1.value, units1[1])>>
         IN  IF x1.raised # "none" THEN [raised |-> x1.raised, sent |-> NoArgs]
             ELSE IF y1.raised # "none" THEN [raised |-> y1.raised, sent |-> NoArgs]
             ELSE [raised |-> "none",
                   sent |-> <<ar2d, rx[1], ry[1], x1.value, y1.value,
                              <<label2D, label1X, label1Y>>, graphs_joined>>]
    ELSE LET label2D == <<labels[1], labels[2], labels[3]>>
             label1X == <<labels[1], labels[3], "At " \o labels[2] \o ": " \o PyStr(y)>>
             label1Y == <<labels[2], labels[3], "At " \o labels[1] \o ": " \o PyStr(x)>>
         IN  [raised |-> "none",
              sent |-> <<ar2d, x_range, y_range, x, y,
                         <<label2D, label1X, label1Y>>, graphs_joined>>]

\* uti_plot_data_file, lines 254-256: the eleven arguments as they came
UtiPlotDataFileArgs(fname, read_labels, e, x, y, joined, multicolumn, column_x, column_y, scale, width) ==
    <<fname, read_labels, e, x, y, joined, multicolumn, column_x, column_y, scale, width>>

----------------------------------------------------------------------------
\* One public call: pre is what the facade function did before calling
\* _backend ([raised, sent]); the call of _backend follows if it did not raise.
Call(op, method, in, pre, constructs) ==
    IF pre.raised # "none"
    THEN /\ last' = [op |-> op, method |-> method, in |-> in, before |-> _backend,
                     raised |-> pre.raised, inits |-> 0, sent |-> NoArgs,
                     reached |-> FALSE]
         /\ received' = NoCall
         /\ UNCHANGED <<_backend, plots, autoInits>>
    ELSE LET d == BackendCall(_backend, method, pre.sent, constructs, plots)
         IN  /\ d.plots <= MaxPlots
             /\ _backend' = d.handle
             /\ plots' = d.plots
             /\ autoInits' = autoInits + d.inits
             /\ received' = d.received
             /\ last' = [op |-> op, method |-> method, in |-> in, before |-> _backend,
                         raised |-> d.raised, inits |-> d.inits, sent |-> pre.sent,
                         reached |-> TRUE]

\* whether the environment lets the lazy initialisation construct a backend:
\* only a call that finds the proxy consults it
Constructs == IF _backend = Missing THEN BOOLEAN ELSE {FALSE}

UtiPlotInit ==
    \E backend \in Backends, fname_format \in FnameFormats, constructs \in BOOLEAN :
        LET i == uti_plot_init(_backend, backend, fname_format, constructs)
        IN  /\ (backend = None => ~constructs)
            /\ _backend' = i.handle
            /\ received' = NoCall
            /\ last' = [op |-> "uti_plot_init", method |-> "none",
                        in |-> [backend |-> backend, fname_format |-> fname_format,
                                constructs |-> constructs],
                        before |-> _backend, raised |-> i.raised, inits |-> 1,
                        sent |-> NoArgs, reached |-> FALSE]
            /\ UNCHANGED <<plots, autoInits>>

UtiPlotShow ==
    \E constructs \in Constructs :
        Call("uti_plot_show", "uti_plot_show", [none |-> None],
             [raised |-> "none", sent |-> <<>>], constructs)

UtiPlot1d ==
    \E x_range \in Ranges, labels \in {Labels2, Labels3}, units \in Units2,
       constructs \in Constructs :
        Call("uti_plot1d", "uti_plot1d",
             [ar1d |-> "ar1d", x_range |-> x_range, labels |-> labels, units |-> units],
             [raised |-> "none", sent |-> UtiPlot1dArgs("ar1d", x_range, labels, units)],
             constructs)

UtiPlot1dIr ==
    \/ \E units \in {None, Tup(<<"m", "m">>)}, constructs \in Constructs :
           Call("uti_plot1d_ir", "uti_plot1d_ir",
                [ary |-> NonSequence, arx |-> None, labels |-> Labels2, units |-> units],
                UtiPlot1dIrPre(NonSequence, None, Labels2, units), constructs)
    \/ \E ary \in PairedOrdinates, units \in {None, Tup(<<"m", "m">>)},
          constructs \in Constructs :
           Call("uti_plot1d_ir", "uti_plot1d_ir",
                [ary |-> ary, arx |-> None, labels |-> Labels2, units |-> units],
                UtiPlot1dIrPre(ary, None, Labels2, units), constructs)
    \/ \E units \in {None, Tup(<<"m", "m">>)}, constructs \in Constructs :
           LET ary == Lst(<<1, 4>>)
               arx == Lst(<<1, 2>>)
           IN  Call("uti_plot1d_ir", "uti_plot1d_ir",
                    [ary |-> ary, arx |-> arx, labels |-> Labels2, units |-> units],
                    UtiPlot1dIrPre(ary, arx, Labels2, units), constructs)

UtiPlot1dM ==
    \E labels \in {Labels2, Labels3}, units \in Units2, constructs \in Constructs :
        Call("uti_plot1d_m", "uti_plot1d_m",
             [ars |-> "ars", labels |-> labels, units |-> units],
             [raised |-> "none",
              sent |-> UtiPlot1dMArgs("ars", labels, units, None, None)],
             constructs)

UtiPlot2d ==
    \E x_range \in Ranges \cup {None}, y_range \in Ranges \cup {None},
       units \in Units3, constructs \in Constructs :
        Call("uti_plot2d", "uti_plot2d",
             [ar2d |-> "ar2d", x_range |-> x_range, y_range |-> y_range,
              labels |-> Labels3, units |-> units],
             [raised |-> "none",
              sent |-> UtiPlot2dArgs("ar2d", x_range, y_range, Labels3, units)],
             constructs)

UtiPlot2d1d ==
    \E x_range \in Ranges, y_range \in Ranges, x \in Cuts, y \in Cuts,
       units \in Units3, constructs \in Constructs :
        Call("uti_plot2d1d", "uti_plot2d1d",
             [ar2d |-> "ar2d", x_range |-> x_range, y_range |-> y_range,
              x |-> x, y |-> y, labels |-> Labels3, units |-> units],
             UtiPlot2d1dPre("ar2d", x_range, y_range, x, y, Labels3, units, TRUE),
             constructs)

\* uti_plot_data_file with the defaults of its signature (lines 236-238)
DataFileArgs(fname) ==
    UtiPlotDataFileArgs(fname, 1, 0, 0, 0, TRUE, FALSE, None, None,
                        Str("linear"), None)

UtiPlotDataFile ==
    \E fname \in {"a.dat", "b.dat"}, constructs \in Constructs :
        Call("uti_plot_data_file", "uti_plot_data_file", [fname |-> fname],
             [raised |-> "none", sent |-> DataFileArgs(fname)], constructs)

\* uti_data_file_plot (line 285) calls uti_plot_data_file, whose frame is the
\* one that calls _backend
UtiDataFilePlot ==
    \E fname \in {"a.dat", "b.dat"}, constructs \in Constructs :
        Call("uti_data_file_plot", "uti_plot_data_file", [fname |-> fname],
             [raised |-> "none", sent |-> DataFileArgs(fname)], constructs)

Init ==
    /\ _backend = Missing
    /\ plots = 0
    /\ autoInits = 0
    /\ received = NoCall
    /\ last = [op |-> "import", method |-> "none", in |-> [none |-> None],
               before |-> Missing, raised |-> "none", inits |-> 0,
               sent |-> NoArgs, reached |-> FALSE]

Next ==
    \/ UtiPlotInit
    \/ UtiPlotShow
    \/ UtiPlot1d
    \/ UtiPlot1dIr
    \/ UtiPlot1dM
    \/ UtiPlot2d
    \/ UtiPlot2d1d
    \/ UtiPlotDataFile
    \/ UtiDataFilePlot

Spec == Init /\ [][Next]_vars

----------------------------------------------------------------------------
\* The public functions that call _backend
FacadeOps == BackendMethods \cup {"uti_data_file_plot"}

\* the handle a call of uti_plot_init selects by its own arguments
Selected(in) ==
    IF in.backend # None /\ in.constructs
    THEN Backend(in.backend, in.fname_format)
    ELSE BackendNone

\* the abscissas and ordinates of a sequence of pairs, in order
Abscissas(pairs) == [i \in 1..Len(pairs) |-> pairs[i][1]]

Ordinates(pairs) == [i \in 1..Len(pairs) |-> pairs[i][2]]

----------------------------------------------------------------------------
\* C1 (as stated): the first facade call of any kind made while the handle is
\* the uninitialized proxy triggers exactly one initialization and invokes the
\* same-named method on the newly installed backend; the automatic
\* initialization happens at most once.
C1_FirstFacadeCallInitializes ==
    /\ autoInits <= 1
    /\ (last.op \in FacadeOps /\ last.before = Missing)
          => /\ last.inits = 1
             /\ _backend # Missing
             /\ received.name = last.method

\* C1 (amended): a facade call that reaches the handle while it is the
\* uninitialized proxy triggers exactly one uti_plot_init with the defaults and
\* then invokes, on the newly installed backend, the method named as the one
\* called on the proxy with the same positional arguments in the same order; a
\* facade call that raises before it calls the handle initializes nothing; the
\* automatic initialization happens at most once over any sequence of calls.
C1_ReachingCallInitializesOnce ==
    /\ autoInits <= 1
    /\ (last.op \in FacadeOps /\ last.before = Missing /\ last.reached)
          => /\ last.inits = 1
             /\ autoInits = 1
             /\ _backend \in {BackendNone, Backend(Str(DEFAULT_BACKEND), None)}
             /\ last.raised = "none"
             /\ received = [target |-> _backend.class, name |-> last.method,
                            args |-> last.sent]
    /\ (last.op \in FacadeOps /\ ~last.reached)
          => /\ last.inits = 0
             /\ _backend = last.before
             /\ received = NoCall

C1_Witness ==
    /\ last.op = "uti_plot1d"
    /\ last.before = Missing
    /\ last.reached
    /\ autoInits = 1
    /\ _backend = Backend(Str(DEFAULT_BACKEND), None)
    /\ received.name = "uti_plot1d"
    /\ received.target = "Backend"

\* C2: uti_plot_init with a backend identifier other than None whose backend
\* construction fails returns without raising and leaves the handle set to the
\* none-backend.
C2_FailedConstructionFallsBack ==
    (last.op = "uti_plot_init" /\ last.in.backend # None /\ ~last.in.constructs)
        => (last.raised = "none" /\ _backend = BackendNone)

C2_Witness ==
    /\ last.op = "uti_plot_init"
    /\ last.in.backend = Str(DEFAULT_BACKEND)
    /\ ~last.in.constructs
    /\ last.before.class = "Backend"
    /\ _backend = BackendNone

\* C3: uti_plot_init(None, fname_format) raises ValueError whenever
\* fname_format is not None; uti_plot_init(None, None) does not raise and
\* installs the none-backend.
C3_NoneBackendWithFname ==
    (last.op = "uti_plot_init" /\ last.in.backend = None)
        => IF last.in.fname_format # None
           THEN last.raised = "ValueError"
           ELSE last.raised = "none" /\ _backend = BackendNone

C3_Witness ==
    /\ last.op = "uti_plot_init"
    /\ last.in.backend = None
    /\ last.in.fname_format # None
    /\ last.raised = "ValueError"

\* C4: the handle starts as the uninitialized proxy, and once it is the
\* none-backend or an active backend no call of uti_plot_init (succeeding,
\* falling back or raising) and no facade call makes it the proxy again.
C4_NeverReverts ==
    /\ _backend = Missing
    /\ [][_backend # Missing => _backend' # Missing]_vars

C4_Witness ==
    /\ last.op = "uti_plot_init"
    /\ last.raised = "ValueError"
    /\ last.before.class = "Backend"
    /\ _backend = last.before

\* C5: while the handle is the none-backend, every facade call that reaches
\* the backend returns without raising, records no plot and leaves the handle
\* equal to the none-backend.
C5_NoneBackendIsNoOp ==
    [][(_backend = BackendNone /\ last'.op \in FacadeOps /\ last'.reached)
          => /\ last'.raised = "none"
             /\ plots' = plots
             /\ _backend' = BackendNone
             /\ received'.target = "_BackendNone"]_vars

C5_Witness ==
    /\ last.op = "uti_plot2d1d"
    /\ last.before = BackendNone
    /\ last.reached
    /\ plots > 0
    /\ _backend = BackendNone

\* C6 (as stated): after any call of uti_plot_init the handle is the variant
\* selected by that call alone: the active backend if its construction
\* succeeded, the none-backend if it failed or None was requested.
C6_LastCallWins ==
    last.op = "uti_plot_init" => _backend = Selected(last.in)

\* C6 (amended): after a call of uti_plot_init that returns, the handle is the
\* variant selected by that call alone, whatever earlier calls installed; a
\* call that raises (None requested together with a fname_format) leaves the
\* handle as it found it.  So the last call that returned wins.
C6_LastReturningCallWins ==
    last.op = "uti_plot_init"
        => IF last.raised = "none"
           THEN _backend = Selected(last.in)
           ELSE /\ last.in.backend = None
                /\ last.in.fname_format # None
                /\ _backend = last.before

C6_Witness ==
    /\ last.op = "uti_plot_init"
    /\ last.before.class = "Backend"
    /\ _backend.class = "Backend"
    /\ _backend # last.before

\* C7: uti_plot1d_ir with arx omitted accepts a list, a tuple or an array of
\* pairs (each is destructured and delegated to the backend); for an argument
\* of any other kind it fails with the invalid-input error (Exception) and no
\* backend method is invoked.
C7_AcceptedContainers ==
    (last.op = "uti_plot1d_ir" /\ last.in.arx = None)
        => IF last.in.ary.type \in {"list", "tuple", "array"}
           THEN /\ last.raised = "none"
                /\ last.reached
                /\ received.name = "uti_plot1d_ir"
           ELSE /\ last.raised = "Exception"
                /\ ~last.reached
                /\ received = NoCall

\* C8: for every sequence of pairs passed to uti_plot1d_ir without arx, the
\* backend's uti_plot1d_ir receives the ordinates and the abscissas as two
\* parallel sequences in the original order; with an explicit arx, ary and
\* arx are passed through unchanged.
C8_PairsAreSplit ==
    (last.op = "uti_plot1d_ir" /\ last.in.ary # NonSequence)
        => /\ received.name = "uti_plot1d_ir"
           /\ IF last.in.arx = None
              THEN /\ received.args[1].items = Ordinates(last.in.ary.items)
                   /\ received.args[2].items = Abscissas(last.in.ary.items)
                   /\ Len(received.args[1].items) = Len(last.in.ary.items)
                   /\ Len(received.args[2].items) = Len(last.in.ary.items)
              ELSE /\ received.args[1] = last.in.ary
                   /\ received.args[2] = last.in.arx

\* C9: uti_plot1d with units (ux, uy) and labels of length 2 or 3 hands the
\* backend the labels (labels[0] + ' [' + ux2 + ']', labels[1] + ' [' + uy +
\* ']', labels[2] or ''), ux2 being the unit rescale_dim returns; ('E', 'I')
\* with ('eV', 'ph') gives ('E [eV]', 'I [ph]', ''); the unit is appended
\* once, also through the lazy proxy; without units the labels are unchanged.
C9_Labels1d ==
    (last.op = "uti_plot1d")
        => /\ last.reached
           /\ received.name = "uti_plot1d"
           /\ LET l == last.in.labels
                  u == last.in.units
              IN  IF u # None
                  THEN received.args[3] =
                         << l[1] \o " [" \o RescaleDim(last.in.x_range, u.items[1])[2] \o "]",
                            l[2] \o " [" \o u.items[2] \o "]",
                            IF Len(l) = 3 THEN l[3] ELSE "" >>
                  ELSE received.args[3] = l
           /\ (last.in.labels = <<"E", "I">> /\ last.in.units = Tup(<<"eV", "ph">>))
                 => received.args[3] = <<"E [eV]", "I [ph]", "">>

C9_Witness ==
    /\ last.op = "uti_plot1d"
    /\ last.before = Missing
    /\ last.in.units = Tup(<<"m", "m">>)
    /\ received.target = "Backend"
    /\ received.args[3] = <<"E [mm]", "I [m]", "">>

\* C10: uti_plot2d1d with cut coordinates x = 0 and y = 0 delegates the cut
\* coordinates unchanged, and the titles of the X-cut and Y-cut labels are
\* 'At <y-axis label>: 0' and 'At <x-axis label>: 0' with no unit appended,
\* the same with units and without.
C10_ZeroCuts ==
    (last.op = "uti_plot2d1d" /\ ~PyNonZero(last.in.x) /\ ~PyNonZero(last.in.y))
        => /\ last.reached
           /\ received.name = "uti_plot2d1d"
           /\ received.args[4] = last.in.x
           /\ received.args[5] = last.in.y
           /\ received.args[6][2][3] = "At " \o last.in.labels[2] \o ": " \o PyStr(last.in.y)
           /\ received.args[6][3][3] = "At " \o last.in.labels[1] \o ": " \o PyStr(last.in.x)
           /\ (last.in.y = PyInt(0) => received.args[6][2][3] = "At Y: 0")
           /\ (last.in.x = PyInt(0) => received.args[6][3][3] = "At X: 0")

C10_Witness ==
    /\ last.op = "uti_plot2d1d"
    /\ last.in.x = PyInt(0)
    /\ last.in.y = PyInt(0)
    /\ last.in.units # None
    /\ received.args[2] # last.in.x_range
    /\ received.args[6][1][1] = "X [mm]"
    /\ received.args[6][2][3] = "At Y: 0"
    /\ received.args[6][3][3] = "At X: 0"

====
